---- MODULE Spec2Model ----
(***************************************************************************)
(* Model of zsqli (main.go): the prober performRequest, getBaseline, the   *)
(* classifier analyzeSQLi and the dispatcher in main (wait group, result   *)
(* channel, semaphore channel, one goroutine per (url, payload) pair, the  *)
(* closing goroutine and the range loop that reports the results).         *)
(*                                                                         *)
(* Times are float64 seconds in the source; here they are integers in      *)
(* tenths of a second (5 s = 50, the 15 s timeout = 150), so that          *)
(* baselineTime * 3 and the >= comparisons are exact on that grid.         *)
(* A response body is a sequence of tokens, each a fixed run of bytes.     *)
(***************************************************************************)
EXTENDS Integers, Sequences, FiniteSets, Bags, TLC

\* ---------------------------------------------------------------- bounds
MaxTargets == 3          \* len(urls) ranges over 0..MaxTargets
MaxPayloads == 3         \* len(payloads) ranges over 0..MaxPayloads
MaxUnits == 3            \* len(urls)*len(payloads) is at most MaxUnits
MaxSmallFlag == 2        \* values of -t: -1..MaxSmallFlag, 20 and 50
MaxBodyTokens == 1       \* tokens in a response body of the classifier runs
MaxBaselineTime == 21    \* baseline times of the classifier runs, 0.1 s units
MaxResponseTime == 64    \* response times of the classifier runs, 0.1 s units
MaxBaselineSize == 7     \* baseline body sizes of the classifier runs, bytes

\* ------------------------------------------------------ program constants
MinThreads == 1          \* *threads < 1
MaxThreads == 20         \* *threads > 20
DefaultThreads == 5      \* *threads = 5
RequestTimeout == 150    \* 15*time.Second
TimeFloor == 50          \* result.ResponseTime >= 5
TimeFactor == 3          \* baselineTime * 3

\* ------------------------------------------------------------------ state
VARIABLES
    flagT,        \* the value given to -t (never changes)
    threads,      \* *threads
    nUrls,        \* len(urls)
    nPayloads,    \* len(payloads)
    mainPc,       \* position of main
    ui, pi,       \* indices of the two range loops of main
    baselines,    \* per url: what getBaseline returned in its iteration
    stdout,       \* urls for which the baseline failure line was printed
    wg,           \* counter of the sync.WaitGroup
    results,      \* buffer of the results channel
    resultsCap,   \* capacity of the results channel
    closed,       \* close(results) has run
    semaphore,    \* number of elements in the semaphore channel
    semCap,       \* capacity of the semaphore channel
    unit,         \* per (url, payload): the worker goroutine
    closerPc,     \* position of the goroutine that waits and closes
    reported,     \* bag of the results the range loop has received
    netlog,       \* bag of the requests made: [url, ok] per performRequest call
    errlog,       \* bag of the urls whose "Error:" line was printed and logged
    arg, ret      \* argument and return value of a direct analyzeSQLi call

vars == <<flagT, threads, nUrls, nPayloads, mainPc, ui, pi, baselines, stdout,
          wg, results, resultsCap, closed, semaphore, semCap, unit, closerPc,
          reported, netlog, errlog, arg, ret>>

scanVars == <<flagT, threads, nUrls, nPayloads, mainPc, ui, pi, baselines,
              stdout, wg, results, resultsCap, closed, semaphore, semCap, unit,
              closerPc, reported, netlog, errlog>>

\* ----------------------------------------------------------- body strings
Tokens == {"a", "bcd", "sqlite3", "SQL Syntax"}

ByteLen(tok) ==
    CASE tok = "a" -> 1
      [] tok = "bcd" -> 3
      [] tok = "sqlite3" -> 7
      [] tok = "SQL Syntax" -> 10

\* (?i): the pattern is matched without regard to case
ToLower(tok) == IF tok = "SQL Syntax" THEN "sql syntax" ELSE tok

RECURSIVE len(_)
len(body) == IF body = <<>> THEN 0 ELSE ByteLen(Head(body)) + len(Tail(body))

sqlErrorPatterns ==
    <<"mysql_fetch", "sql syntax", "mysql error", "unclosed quotation",
      "unknown column", "sql server", "sqlite3", "postgres">>

MatchString(pattern, body) == \E i \in 1..Len(body) : ToLower(body[i]) = pattern

Bodies(n) == UNION {[1..k -> Tokens] : k \in 0..n}

\* ------------------------------------------------------------ the prober
\* RequestResult; URL is the pair <<url index, payload index>>, payload 0 = "".
RequestResult(success, url, time, err, body) ==
    [Success |-> success, URL |-> url, ResponseTime |-> time, ErrorMsg |-> err,
     Body |-> body, BodySize |-> len(body), IsSQLi |-> FALSE, SQLiType |-> "",
     BaselineTime |-> 0, BaselineSize |-> 0]

\* The results performRequest can return for one url+payload: the request or the
\* body read fails after `t` (no body kept), or the body is read in full.
performRequest(url, failTimes, times, bodies) ==
    {RequestResult(FALSE, url, t, "error", <<>>) : t \in failTimes}
    \cup {RequestResult(TRUE, url, t, "", b) : t \in times, b \in bodies}

\* getBaseline: (time, size, err) of the request without payload.
getBaseline(r) ==
    IF ~r.Success THEN [time |-> 0, size |-> 0, err |-> "failed"]
    ELSE [time |-> r.ResponseTime, size |-> r.BodySize, err |-> "nil"]

\* -------------------------------------------------------- the classifier
\* Variant of IsTimeBased: the threshold compared with > instead of >=.
IsTimeBasedStrict(result, baselineTime) ==
    LET timeThreshold == baselineTime * TimeFactor
    IN  result.ResponseTime > timeThreshold /\ result.ResponseTime >= TimeFloor

IsTimeBased(result, baselineTime) ==
    LET timeThreshold == baselineTime * TimeFactor
    IN  result.ResponseTime >= timeThreshold /\ result.ResponseTime >= TimeFloor

IsErrorBased(result) ==
    \E k \in 1..Len(sqlErrorPatterns) : MatchString(sqlErrorPatterns[k], result.Body)

\* Go's / on non-negative ints truncates, as \div does.
IsAnomaly(result, baselineSize) ==
    baselineSize > 0
    /\ (result.BodySize < baselineSize \div 2 \/ result.BodySize > baselineSize * 2)

\* Variant of analyzeSQLi: the error patterns are tried before the time rule.
analyzeSQLiErrorFirst(result, baselineTime, baselineSize) ==
    IF IsErrorBased(result)
    THEN [result EXCEPT !.IsSQLi = TRUE, !.SQLiType = "error-based"]
    ELSE IF IsTimeBased(result, baselineTime)
    THEN [result EXCEPT !.IsSQLi = TRUE, !.SQLiType = "time-based"]
    ELSE IF IsAnomaly(result, baselineSize)
    THEN [result EXCEPT !.IsSQLi = TRUE, !.SQLiType = "anomaly-based"]
    ELSE [result EXCEPT !.SQLiType = "none"]

\* Variant of analyzeSQLi: the error-based branch does not set IsSQLi.
analyzeSQLiErrorUnflagged(result, baselineTime, baselineSize) ==
    IF IsTimeBased(result, baselineTime)
    THEN [result EXCEPT !.IsSQLi = TRUE, !.SQLiType = "time-based"]
    ELSE IF IsErrorBased(result)
    THEN [result EXCEPT !.SQLiType = "error-based"]
    ELSE IF IsAnomaly(result, baselineSize)
    THEN [result EXCEPT !.IsSQLi = TRUE, !.SQLiType = "anomaly-based"]
    ELSE [result EXCEPT !.SQLiType = "none"]

analyzeSQLi(result, baselineTime, baselineSize) ==
    IF IsTimeBased(result, baselineTime)
    THEN [result EXCEPT !.IsSQLi = TRUE, !.SQLiType = "time-based"]
    ELSE IF IsErrorBased(result)
    THEN [result EXCEPT !.IsSQLi = TRUE, !.SQLiType = "error-based"]
    ELSE IF IsAnomaly(result, baselineSize)
    THEN [result EXCEPT !.IsSQLi = TRUE, !.SQLiType = "anomaly-based"]
    ELSE [result EXCEPT !.SQLiType = "none"]

\* ------------------------------------------------------------ dispatcher
Urls == 1..MaxTargets
Payloads == 1..MaxPayloads
Units == Urls \X Payloads

\* What the network can answer during a scan.
TimeoutTimes == {RequestTimeout}
BaselineTimes == {10, 20}
BaselineBodies == {<<"bcd">>}
ProbeTimes == {10}
ProbeBodies == {<<"a">>, <<"sqlite3">>}

NoResult == RequestResult(FALSE, <<0, 0>>, 0, "", <<>>)
NoBaseline == [time |-> 0, size |-> 0, err |-> "unset"]
NoCall == [result |-> NoResult, baselineTime |-> 0, baselineSize |-> 0]
IdleUnit == [pc |-> "unborn", bt |-> 0, bs |-> 0, result |-> NoResult]

Running == mainPc \notin {"exit", "panic", "off"}

\* Variant of MakeChannels: results sized by len(urls) alone.
MakeChannelsPerUrl ==
    /\ mainPc = "make"
    /\ resultsCap' = nUrls
    /\ IF threads < 0
       THEN /\ mainPc' = "panic"
            /\ UNCHANGED semCap
       ELSE /\ semCap' = threads
            /\ mainPc' = "clamp"
    /\ UNCHANGED <<flagT, threads, nUrls, nPayloads, ui, pi, baselines, stdout, wg,
                   results, closed, semaphore, unit, closerPc, reported, netlog, errlog,
                   arg, ret>>

\* var wg; results := make(chan RequestResult, len(urls)*len(payloads));
\* semaphore := make(chan struct{}, *threads)   (panics on a negative size)
MakeChannels ==
    /\ mainPc = "make"
    /\ resultsCap' = nUrls * nPayloads
    /\ IF threads < 0
       THEN /\ mainPc' = "panic"
            /\ UNCHANGED semCap
       ELSE /\ semCap' = threads
            /\ mainPc' = "clamp"
    /\ UNCHANGED <<flagT, threads, nUrls, nPayloads, ui, pi, baselines, stdout, wg,
                   results, closed, semaphore, unit, closerPc, reported, netlog, errlog, arg,
                   ret>>

\* if *threads < 1 || *threads > 20 { *threads = 5 }
ClampThreads ==
    /\ mainPc = "clamp"
    /\ threads' = IF threads < MinThreads \/ threads > MaxThreads
                  THEN DefaultThreads ELSE threads
    /\ mainPc' = IF nUrls = 0 THEN "go" ELSE "loop"
    /\ UNCHANGED <<flagT, nUrls, nPayloads, ui, pi, baselines, stdout, wg, results,
                   resultsCap, closed, semaphore, semCap, unit, closerPc, reported,
                   netlog, errlog, arg,
                   ret>>

\* Where main goes once it is done with url number u.
AfterUrl(u) == IF u >= nUrls THEN "go" ELSE "loop"

\* Variant of Baseline: the `continue` of the error branch is missing, so the
\* payload loop runs with the zero baseline.
BaselineNoContinue ==
    /\ mainPc = "loop"
    /\ \E r \in performRequest(<<ui, 0>>, TimeoutTimes, BaselineTimes, BaselineBodies) :
         LET b == getBaseline(r) IN
         /\ baselines' = [baselines EXCEPT ![ui] = b]
         /\ netlog' = netlog (+) SetToBag({[url |-> r.URL, ok |-> r.Success]})
         /\ stdout' = IF b.err # "nil" THEN stdout \cup {ui} ELSE stdout
         /\ IF nPayloads = 0
            THEN /\ ui' = ui + 1
                 /\ mainPc' = AfterUrl(ui)
                 /\ UNCHANGED pi
            ELSE /\ pi' = 1
                 /\ mainPc' = "spawn"
                 /\ UNCHANGED ui
    /\ UNCHANGED <<flagT, threads, nUrls, nPayloads, wg, results, resultsCap, closed,
                   semaphore, semCap, unit, closerPc, reported, errlog, arg,
                   ret>>

\* One iteration head of `for _, url := range urls`: getBaseline, and on an
\* error the two diagnostics and `continue`.
Baseline ==
    /\ mainPc = "loop"
    /\ \E r \in performRequest(<<ui, 0>>, TimeoutTimes, BaselineTimes, BaselineBodies) :
         LET b == getBaseline(r) IN
         /\ baselines' = [baselines EXCEPT ![ui] = b]
         /\ netlog' = netlog (+) SetToBag({[url |-> r.URL, ok |-> r.Success]})
         /\ IF b.err # "nil"
            THEN /\ stdout' = stdout \cup {ui}
                 /\ ui' = ui + 1
                 /\ mainPc' = AfterUrl(ui)
                 /\ UNCHANGED pi
            ELSE /\ UNCHANGED stdout
                 /\ IF nPayloads = 0
                    THEN /\ ui' = ui + 1
                         /\ mainPc' = AfterUrl(ui)
                         /\ UNCHANGED pi
                    ELSE /\ pi' = 1
                         /\ mainPc' = "spawn"
                         /\ UNCHANGED ui
    /\ UNCHANGED <<flagT, threads, nUrls, nPayloads, wg, results, resultsCap, closed,
                   semaphore, semCap, unit, closerPc, reported, errlog, arg,
                   ret>>

\* Variant of Spawn: the unit gets the baseline of the first url instead of
\* the one measured for its own url.
SpawnFirstBaseline ==
    /\ mainPc = "spawn"
    /\ wg' = wg + 1
    /\ unit' = [unit EXCEPT ![<<ui, pi>>] =
                  [pc |-> "acquire", bt |-> baselines[1].time,
                   bs |-> baselines[1].size, result |-> NoResult]]
    /\ IF pi >= nPayloads
       THEN /\ ui' = ui + 1
            /\ mainPc' = AfterUrl(ui)
            /\ UNCHANGED pi
       ELSE /\ pi' = pi + 1
            /\ UNCHANGED <<ui, mainPc>>
    /\ UNCHANGED <<flagT, threads, nUrls, nPayloads, baselines, stdout, results,
                   resultsCap, closed, semaphore, semCap, closerPc, reported, netlog,
                   errlog, arg, ret>>

\* One iteration of `for _, payload := range payloads`: wg.Add(1); go func(...)
Spawn ==
    /\ mainPc = "spawn"
    /\ wg' = wg + 1
    /\ unit' = [unit EXCEPT ![<<ui, pi>>] =
                  [pc |-> "acquire", bt |-> baselines[ui].time,
                   bs |-> baselines[ui].size, result |-> NoResult]]
    /\ IF pi >= nPayloads
       THEN /\ ui' = ui + 1
            /\ mainPc' = AfterUrl(ui)
            /\ UNCHANGED pi
       ELSE /\ pi' = pi + 1
            /\ UNCHANGED <<ui, mainPc>>
    /\ UNCHANGED <<flagT, threads, nUrls, nPayloads, baselines, stdout, results,
                   resultsCap, closed, semaphore, semCap, closerPc, reported, netlog, errlog, arg,
                   ret>>

\* go func() { wg.Wait(); close(results) }()
GoCloser ==
    /\ mainPc = "go"
    /\ closerPc' = "wait"
    /\ mainPc' = "range"
    /\ UNCHANGED <<flagT, threads, nUrls, nPayloads, ui, pi, baselines, stdout, wg,
                   results, resultsCap, closed, semaphore, semCap, unit, reported,
                   netlog, errlog, arg,
                   ret>>

\* Variant of CloserWait: close(results) without waiting for the counter.
CloserNoWait ==
    /\ Running
    /\ closerPc = "wait"
    /\ closerPc' = "close"
    /\ UNCHANGED <<flagT, threads, nUrls, nPayloads, mainPc, ui, pi, baselines,
                   stdout, wg, results, resultsCap, closed, semaphore, semCap, unit,
                   reported, netlog, errlog, arg,
                   ret>>

\* wg.Wait() returns when the counter is zero
CloserWait ==
    /\ Running
    /\ closerPc = "wait"
    /\ wg = 0
    /\ closerPc' = "close"
    /\ UNCHANGED <<flagT, threads, nUrls, nPayloads, mainPc, ui, pi, baselines,
                   stdout, wg, results, resultsCap, closed, semaphore, semCap, unit,
                   reported, netlog, errlog, arg,
                   ret>>

\* close(results)
CloserClose ==
    /\ Running
    /\ closerPc = "close"
    /\ closed' = TRUE
    /\ closerPc' = "done"
    /\ UNCHANGED <<flagT, threads, nUrls, nPayloads, mainPc, ui, pi, baselines,
                   stdout, wg, results, resultsCap, semaphore, semCap, unit,
                   reported, netlog, errlog, arg,
                   ret>>

\* Variant of Acquire: the unit goes on without waiting for room.
AcquireNoWait(u) ==
    /\ Running
    /\ unit[u].pc = "acquire"
    /\ semaphore' = semaphore + 1
    /\ unit' = [unit EXCEPT ![u].pc = "request"]
    /\ UNCHANGED <<flagT, threads, nUrls, nPayloads, mainPc, ui, pi, baselines,
                   stdout, wg, results, resultsCap, closed, semCap, closerPc,
                   reported, netlog, errlog, arg,
                   ret>>

\* semaphore <- struct{}{} : enabled while the buffer has room (the only
\* receives on this channel are the releases of units that already sent).
Acquire(u) ==
    /\ Running
    /\ unit[u].pc = "acquire"
    /\ semaphore < semCap
    /\ semaphore' = semaphore + 1
    /\ unit' = [unit EXCEPT ![u].pc = "request"]
    /\ UNCHANGED <<flagT, threads, nUrls, nPayloads, mainPc, ui, pi, baselines,
                   stdout, wg, results, resultsCap, closed, semCap, closerPc,
                   reported, netlog, errlog, arg,
                   ret>>

\* Variant of Request: a failed request makes the unit return at once, without
\* sending and without giving its slot back.
RequestReturnOnError(u) ==
    /\ Running
    /\ unit[u].pc = "request"
    /\ \E r \in performRequest(u, TimeoutTimes, ProbeTimes, ProbeBodies) :
         LET withBase == [r EXCEPT !.BaselineTime = unit[u].bt,
                                   !.BaselineSize = unit[u].bs]
         IN  /\ unit' = IF r.Success
                        THEN [unit EXCEPT ![u].pc = "send",
                                          ![u].result = analyzeSQLi(withBase, unit[u].bt,
                                                                    unit[u].bs)]
                        ELSE [unit EXCEPT ![u].pc = "return"]
             /\ netlog' = netlog (+) SetToBag({[url |-> r.URL, ok |-> r.Success]})
    /\ UNCHANGED <<flagT, threads, nUrls, nPayloads, mainPc, ui, pi, baselines,
                   stdout, wg, results, resultsCap, closed, semaphore, semCap,
                   closerPc, reported, errlog, arg, ret>>

\* Variant of Request: a failed request is tried a second time.
RequestRetry(u) ==
    /\ Running
    /\ unit[u].pc = "request"
    /\ \E r \in performRequest(u, TimeoutTimes, ProbeTimes, ProbeBodies) :
         LET withBase == [r EXCEPT !.BaselineTime = unit[u].bt,
                                   !.BaselineSize = unit[u].bs]
             once == SetToBag({[url |-> r.URL, ok |-> r.Success]})
         IN  /\ unit' = [unit EXCEPT ![u].pc = "send",
                                     ![u].result = analyzeSQLi(withBase, unit[u].bt,
                                                               unit[u].bs)]
             /\ netlog' = IF r.Success THEN netlog (+) once
                          ELSE netlog (+) once (+) once
    /\ UNCHANGED <<flagT, threads, nUrls, nPayloads, mainPc, ui, pi, baselines,
                   stdout, wg, results, resultsCap, closed, semaphore, semCap,
                   closerPc, reported, errlog, arg, ret>>

\* result := performRequest(u, p, ...); result.BaselineTime = bt;
\* result.BaselineSize = bs; result = analyzeSQLi(result, bt, bs)
Request(u) ==
    /\ Running
    /\ unit[u].pc = "request"
    /\ \E r \in performRequest(u, TimeoutTimes, ProbeTimes, ProbeBodies) :
         LET withBase == [r EXCEPT !.BaselineTime = unit[u].bt,
                                   !.BaselineSize = unit[u].bs]
         IN  /\ unit' = [unit EXCEPT ![u].pc = "send",
                                     ![u].result = analyzeSQLi(withBase, unit[u].bt,
                                                               unit[u].bs)]
             /\ netlog' = netlog (+) SetToBag({[url |-> r.URL, ok |-> r.Success]})
    /\ UNCHANGED <<flagT, threads, nUrls, nPayloads, mainPc, ui, pi, baselines,
                   stdout, wg, results, resultsCap, closed, semaphore, semCap,
                   closerPc, reported, errlog, arg,
                   ret>>

\* Variant of Send: a failed request is not sent (an early return on error).
SendOnlySuccess(u) ==
    /\ Running
    /\ unit[u].pc = "send"
    /\ IF closed
       THEN /\ mainPc' = "panic"
            /\ UNCHANGED <<results, unit>>
       ELSE /\ Len(results) < resultsCap
            /\ results' = IF unit[u].result.Success
                          THEN Append(results, unit[u].result) ELSE results
            /\ unit' = [unit EXCEPT ![u].pc = "release", ![u].result = NoResult]
            /\ UNCHANGED mainPc
    /\ UNCHANGED <<flagT, threads, nUrls, nPayloads, ui, pi, baselines, stdout, wg,
                   resultsCap, closed, semaphore, semCap, closerPc, reported, netlog, errlog, arg,
                   ret>>

\* results <- result : panics on a closed channel, blocks while the buffer is
\* full. The local `result` is dead afterwards and is reset here.
Send(u) ==
    /\ Running
    /\ unit[u].pc = "send"
    /\ IF closed
       THEN /\ mainPc' = "panic"
            /\ UNCHANGED <<results, unit>>
       ELSE /\ Len(results) < resultsCap
            /\ results' = Append(results, unit[u].result)
            /\ unit' = [unit EXCEPT ![u].pc = "release", ![u].result = NoResult]
            /\ UNCHANGED mainPc
    /\ UNCHANGED <<flagT, threads, nUrls, nPayloads, ui, pi, baselines, stdout, wg,
                   resultsCap, closed, semaphore, semCap, closerPc, reported, netlog, errlog, arg,
                   ret>>

\* Variant of Release: the unit returns without receiving from the semaphore.
ReleaseForgotten(u) ==
    /\ Running
    /\ unit[u].pc = "release"
    /\ unit' = [unit EXCEPT ![u].pc = "return"]
    /\ UNCHANGED <<flagT, threads, nUrls, nPayloads, mainPc, ui, pi, baselines,
                   stdout, wg, results, resultsCap, closed, semaphore, semCap,
                   closerPc, reported, netlog, errlog, arg, ret>>

\* <-semaphore
Release(u) ==
    /\ Running
    /\ unit[u].pc = "release"
    /\ semaphore > 0
    /\ semaphore' = semaphore - 1
    /\ unit' = [unit EXCEPT ![u].pc = "return"]
    /\ UNCHANGED <<flagT, threads, nUrls, nPayloads, mainPc, ui, pi, baselines,
                   stdout, wg, results, resultsCap, closed, semCap, closerPc,
                   reported, netlog, errlog, arg,
                   ret>>

\* defer wg.Done()
Done(u) ==
    /\ Running
    /\ unit[u].pc = "return"
    /\ wg' = wg - 1
    /\ unit' = [unit EXCEPT ![u].pc = "done"]
    /\ UNCHANGED <<flagT, threads, nUrls, nPayloads, mainPc, ui, pi, baselines,
                   stdout, results, resultsCap, closed, semaphore, semCap, closerPc,
                   reported, netlog, errlog, arg,
                   ret>>

\* Variant of Receive: the "Error:" line is printed in the "none" case only.
ReceiveErrorInNoneCase ==
    /\ mainPc = "range"
    /\ IF results # <<>>
       THEN /\ reported' = reported (+) SetToBag({Head(results)})
            /\ errlog' = IF Head(results).ErrorMsg # "" /\ Head(results).SQLiType = "none"
                         THEN errlog (+) SetToBag({Head(results).URL})
                         ELSE errlog
            /\ results' = Tail(results)
            /\ UNCHANGED mainPc
       ELSE /\ closed
            /\ mainPc' = "exit"
            /\ UNCHANGED <<reported, errlog, results>>
    /\ UNCHANGED <<flagT, threads, nUrls, nPayloads, ui, pi, baselines, stdout, wg,
                   resultsCap, closed, semaphore, semCap, unit, closerPc, netlog, arg,
                   ret>>

\* Variant of Receive: the results are received while main still walks the urls.
ReceiveDuringLoop ==
    /\ mainPc \in {"loop", "spawn", "range"}
    /\ IF results # <<>>
       THEN /\ reported' = reported (+) SetToBag({Head(results)})
            /\ errlog' = IF Head(results).ErrorMsg # ""
                         THEN errlog (+) SetToBag({Head(results).URL})
                         ELSE errlog
            /\ results' = Tail(results)
            /\ UNCHANGED mainPc
       ELSE /\ mainPc = "range"
            /\ closed
            /\ mainPc' = "exit"
            /\ UNCHANGED <<reported, errlog, results>>
    /\ UNCHANGED <<flagT, threads, nUrls, nPayloads, ui, pi, baselines, stdout, wg,
                   resultsCap, closed, semaphore, semCap, unit, closerPc, netlog, arg,
                   ret>>

\* for result := range results { ... } : one received result (with its
\* "Error:" line when ErrorMsg is not empty), or the end of the loop once the
\* channel is closed and drained.
Receive ==
    /\ mainPc = "range"
    /\ IF results # <<>>
       THEN /\ reported' = reported (+) SetToBag({Head(results)})
            /\ errlog' = IF Head(results).ErrorMsg # ""
                         THEN errlog (+) SetToBag({Head(results).URL})
                         ELSE errlog
            /\ results' = Tail(results)
            /\ UNCHANGED mainPc
       ELSE /\ closed
            /\ mainPc' = "exit"
            /\ UNCHANGED <<reported, errlog, results>>
    /\ UNCHANGED <<flagT, threads, nUrls, nPayloads, ui, pi, baselines, stdout, wg,
                   resultsCap, closed, semaphore, semCap, unit, closerPc, netlog, arg,
                   ret>>

UnitStep(u) == Acquire(u) \/ Request(u) \/ Send(u) \/ Release(u) \/ Done(u)

MainStep == MakeChannels \/ ClampThreads \/ Baseline \/ Spawn \/ GoCloser \/ Receive

CloserStep == CloserWait \/ CloserClose

\* State of main after flag.Parse and the reading of the two lists.
Start(flags, urlCounts, payloadCounts) ==
    /\ flagT \in flags
    /\ threads = flagT
    /\ nUrls \in urlCounts
    /\ nPayloads \in payloadCounts
    /\ nUrls * nPayloads <= MaxUnits
    /\ mainPc = "make"
    /\ ui = 1
    /\ pi = 1
    /\ baselines = [t \in Urls |-> NoBaseline]
    /\ stdout = {}
    /\ wg = 0
    /\ results = <<>>
    /\ resultsCap = 0
    /\ closed = FALSE
    /\ semaphore = 0
    /\ semCap = 0
    /\ unit = [u \in Units |-> IdleUnit]
    /\ closerPc = "unborn"
    /\ reported = EmptyBag
    /\ netlog = EmptyBag
    /\ errlog = EmptyBag
    /\ arg = NoCall
    /\ ret = NoResult

ThreadFlags == (-1..MaxSmallFlag) \cup {MaxThreads, 50}

Init == Start(ThreadFlags, 0..MaxTargets, 0..MaxPayloads)

Next ==
    \/ MakeChannels
    \/ ClampThreads
    \/ Baseline
    \/ Spawn
    \/ GoCloser
    \/ Receive
    \/ CloserWait
    \/ CloserClose
    \/ \E u \in Units : Acquire(u)
    \/ \E u \in Units : Request(u)
    \/ \E u \in Units : Send(u)
    \/ \E u \in Units : Release(u)
    \/ \E u \in Units : Done(u)

Spec == Init /\ [][Next]_vars

\* ------------------------------------------- direct calls of analyzeSQLi
\* The arguments of a call: any result performRequest can return, with the
\* baseline fields set as main sets them, and any baseline.
AnalyzeArgs ==
    {[result |-> [r EXCEPT !.BaselineTime = bt, !.BaselineSize = bs],
      baselineTime |-> bt, baselineSize |-> bs] :
        r \in performRequest(<<1, 1>>, 0..MaxResponseTime, 0..MaxResponseTime,
                             Bodies(MaxBodyTokens)),
        bt \in 0..MaxBaselineTime, bs \in 0..MaxBaselineSize}

InitAnalyze ==
    /\ flagT = DefaultThreads
    /\ threads = flagT
    /\ nUrls = 0
    /\ nPayloads = 0
    /\ mainPc = "off"
    /\ ui = 1
    /\ pi = 1
    /\ baselines = [t \in Urls |-> NoBaseline]
    /\ stdout = {}
    /\ wg = 0
    /\ results = <<>>
    /\ resultsCap = 0
    /\ closed = FALSE
    /\ semaphore = 0
    /\ semCap = 0
    /\ unit = [u \in Units |-> IdleUnit]
    /\ closerPc = "unborn"
    /\ reported = EmptyBag
    /\ netlog = EmptyBag
    /\ errlog = EmptyBag
    /\ arg \in AnalyzeArgs
    /\ ret = NoResult

AnalyzeCall ==
    /\ mainPc = "off"
    /\ ret.SQLiType = ""
    /\ ret' = analyzeSQLi(arg.result, arg.baselineTime, arg.baselineSize)
    /\ UNCHANGED <<scanVars, arg>>

NextAnalyze == AnalyzeCall

SpecAnalyze == InitAnalyze /\ [][NextAnalyze]_vars

\* ---------------------------------------------------- derived quantities
InRange == flagT \in MinThreads..MaxThreads

Pairs == (1..nUrls) \X (1..nPayloads)

OkTargets == {t \in 1..nUrls : baselines[t].err = "nil"}

FailedTargets == {t \in 1..nUrls : baselines[t].err = "failed"}

\* Units that hold a slot: between `semaphore <- struct{}{}` and `<-semaphore`.
Holders == {u \in Units : unit[u].pc \in {"request", "send", "release"}}

\* Units that exist and have not yet sent their result.
BeforeSend == {u \in Units : unit[u].pc \in {"acquire", "request", "send"}}

Buffered(url) == Cardinality({i \in 1..Len(results) : results[i].URL = url})

Consumed(url) ==
    LET rs == {r \in BagToSet(reported) : r.URL = url}
    IN  BagCardinality([r \in rs |-> reported[r]])

\* How many results for `url` were put on the stream so far.
Delivered(url) == Buffered(url) + Consumed(url)

OnStream == {results[i] : i \in 1..Len(results)} \cup BagToSet(reported)

SQLiTypes == {"time-based", "error-based", "anomaly-based", "none"}

\* ------------------------------------------------------------------ C1
\* C1: with a limit in 1..20, once the stream is closed the results put on it
\* are exactly one per (url, payload) of every url whose baseline succeeded,
\* so their number is |ok urls| * |payloads|.
C1_OneResultPerPair ==
    (InRange /\ closed) =>
        /\ \A u \in Pairs : Delivered(u) = IF u[1] \in OkTargets THEN 1 ELSE 0
        /\ Len(results) + BagCardinality(reported)
               = Cardinality(OkTargets) * nPayloads

C1_Witness ==
    /\ InRange /\ closed
    /\ flagT = 1
    /\ nUrls = 3
    /\ Cardinality(OkTargets) = 2
    /\ Len(results) + BagCardinality(reported) = 2

\* ------------------------------------------------------------------ C2
\* C2: a limit outside 1..20 behaves as the default 5: never more than 5 units
\* hold a slot, and a unit waiting for a slot while fewer than 5 are held can
\* take one (so that 5 can be reached).
C2_ActsAsDefault ==
    (~InRange) =>
        /\ Cardinality(Holders) <= DefaultThreads
        /\ \A u \in Units :
             (Running /\ unit[u].pc = "acquire" /\ Cardinality(Holders) < DefaultThreads)
                 => ENABLED Acquire(u)

\* ------------------------------------------------------------------ C3
\* C3: a limit outside 1..20 does not fail the scan: with urls and payloads to
\* scan, the program stops only by leaving the range loop, with the stream
\* closed and every scheduled unit finished (no deadlock, no crash).
C3_OutOfRangeCompletes ==
    (~InRange /\ nUrls > 0 /\ nPayloads > 0 /\ ~ENABLED Next) =>
        /\ mainPc = "exit"
        /\ closed
        /\ \A u \in Units : unit[u].pc \in {"unborn", "done"}

\* ------------------------------------------------------------------ C4
\* C4: a result with Success = false that is on the stream is classified "none".
C4_FailedIsNone ==
    \A r \in OnStream : ~r.Success => r.SQLiType = "none"

\* ------------------------------------------------------------------ C5
\* C5: a url whose baseline failed never gets a unit nor a result, and once main
\* is past the loop every payload of every other url has its unit; when main
\* leaves the range loop each of them has been reported once.
C5_FailedTargetSkipped ==
    /\ \A t \in FailedTargets : \A p \in Payloads :
         /\ unit[<<t, p>>].pc = "unborn"
         /\ Delivered(<<t, p>>) = 0
    /\ mainPc \in {"go", "range", "exit"} =>
         \A u \in Pairs : u[1] \in OkTargets => unit[u].pc # "unborn"
    /\ mainPc = "exit" =>
         \A u \in Pairs : u[1] \in OkTargets => Consumed(u) = 1

C5_Witness ==
    /\ mainPc = "exit"
    /\ nUrls = 3
    /\ FailedTargets = {2}
    /\ Consumed(<<1, 1>>) = 1
    /\ Consumed(<<3, 1>>) = 1

\* ------------------------------------------------------------------ C6
\* C6: with a limit L in 1..20 at most L units hold a slot, over all urls, and
\* every unit past its acquire and before its release accounts for one element
\* of the semaphore (no request is made without a slot).
C6_GlobalCap ==
    InRange =>
        /\ Cardinality(Holders) <= flagT
        /\ Cardinality(Holders) = semaphore

C6_Witness ==
    /\ flagT = 2
    /\ Cardinality(Holders) = 2
    /\ \E u \in Units : unit[u].pc = "acquire"
    /\ \E u, v \in Holders : u[1] # v[1]

\* ------------------------------------------------------------------ C10
\* C10: results is closed only when every scheduled unit has finished: from the
\* moment wg.Wait has returned no unit is still to send, none is still to be
\* scheduled, and no send ever hits the closed channel.
C10_CloseAfterAllUnits ==
    (closed \/ closerPc \in {"close", "done"}) =>
        /\ BeforeSend = {}
        /\ \A u \in Units : unit[u].pc \in {"unborn", "done"}
        /\ mainPc \in {"range", "exit"}

C10_Witness ==
    /\ closed
    /\ Cardinality({u \in Units : unit[u].pc = "done"}) = 3
    /\ Len(results) > 0

\* ------------------------------------------------- classifier, as claimed
Called == ret # NoResult

\* The time condition as the claim states it (5 s = 50 tenths).
TimeSignal ==
    /\ arg.result.ResponseTime >= 3 * arg.baselineTime
    /\ arg.result.ResponseTime >= 50

\* The body holds a database error string, in any case.
ErrorSignal == \E i \in 1..Len(arg.result.Body) :
                   arg.result.Body[i] \in {"sqlite3", "SQL Syntax"}

\* Strictly less than half, or strictly more than double, of a positive baseline.
SizeSignal ==
    /\ arg.baselineSize > 0
    /\ \/ 2 * arg.result.BodySize < arg.baselineSize
       \/ arg.result.BodySize > 2 * arg.baselineSize

\* ------------------------------------------------------------------ C7
\* C7: every classified result has one of the four classifications, and the
\* order time-based > error-based > anomaly-based > none is respected.
C7_PriorityOrder ==
    Called =>
        /\ ret.SQLiType \in SQLiTypes
        /\ TimeSignal => ret.SQLiType = "time-based"
        /\ (~TimeSignal /\ ErrorSignal) => ret.SQLiType = "error-based"
        /\ (~TimeSignal /\ ~ErrorSignal) => ret.SQLiType \in {"anomaly-based", "none"}

C7_Witness ==
    /\ Called
    /\ TimeSignal /\ ErrorSignal /\ SizeSignal
    /\ ret.SQLiType = "time-based"

\* ------------------------------------------------------------------ C8
\* C8: the result is time-based exactly when its time is >= 3 x the baseline
\* time and >= 5 s.
C8_TimeRule == Called => (ret.SQLiType = "time-based" <=> TimeSignal)

C8_Witness ==
    /\ Called
    /\ arg.baselineTime = 20
    /\ arg.result.ResponseTime = 60
    /\ ret.SQLiType = "time-based"

\* ------------------------------------------------------------------ C9
\* C9: without a time or error signal the result is anomaly-based exactly when
\* the baseline size is positive and the size is strictly less than half or
\* strictly more than double of it, and none otherwise.
C9_AnomalyRule ==
    (Called /\ ~TimeSignal /\ ~ErrorSignal) =>
        /\ ret.SQLiType = "anomaly-based" <=> SizeSignal
        /\ ret.SQLiType = "none" <=> ~SizeSignal

\* ------------------------------------------------------ request history
\* Number of performRequest calls made for `url` (payload 0: the baseline).
Requests(url) ==
    LET es == {e \in BagToSet(netlog) : e.url = url}
    IN  BagCardinality([e \in es |-> netlog[e]])

BaselineOk(t) == BagIn([url |-> <<t, 0>>, ok |-> TRUE], netlog)

BaselineFailed(t) == BagIn([url |-> <<t, 0>>, ok |-> FALSE], netlog)

ProbeFailed(u) == BagIn([url |-> u, ok |-> FALSE], netlog)

AllUnitsOver == \A u \in Units : unit[u].pc \in {"unborn", "done"}

\* ------------------------------------------------------------------ C11
\* C11: no unit of a url exists, and no payload request for it is made, before
\* the baseline request of that url has returned successfully.
C11_BaselineBeforeUnits ==
    \A u \in Units :
        (unit[u].pc # "unborn" \/ Requests(u) > 0) => BaselineOk(u[1])

C11_Witness ==
    /\ nUrls = 3
    /\ BaselineFailed(1)
    /\ BaselineOk(2)
    /\ Requests(<<2, 1>>) = 1
    /\ mainPc = "loop"

\* ------------------------------------------------------------------ C12
\* C12: every failed baseline has its diagnostic; every failed payload request
\* is on its way to the stream, buffered in it, or received with its "Error:"
\* line; when main leaves the range loop each has that line exactly once.
C12_NoErrorDropped ==
    /\ \A t \in Urls : BaselineFailed(t) => t \in stdout
    /\ \A u \in Units : ProbeFailed(u) =>
         \/ unit[u].pc = "send" /\ ~unit[u].result.Success
                                /\ unit[u].result.ErrorMsg # ""
         \/ \E i \in 1..Len(results) :
                results[i].URL = u /\ ~results[i].Success /\ results[i].ErrorMsg # ""
         \/ /\ \E r \in BagToSet(reported) : r.URL = u /\ ~r.Success
            /\ CopiesIn(u, errlog) = 1
    /\ mainPc = "exit" => \A u \in Units : ProbeFailed(u) => CopiesIn(u, errlog) = 1

C12_Witness ==
    /\ mainPc = "exit"
    /\ \E t \in Urls : BaselineFailed(t) /\ t \in stdout
    /\ \E u \in Units : ProbeFailed(u) /\ CopiesIn(u, errlog) = 1

\* ------------------------------------------------------------------ C14
\* C14: the buffer of results never exceeds its capacity len(urls)*len(payloads)
\* and a unit that is about to send always finds room (and the channel open),
\* although nothing is received before main has walked all urls.
C14_SendNeverBlocks ==
    /\ Len(results) <= resultsCap
    /\ mainPc \notin {"make", "panic"} => resultsCap = nUrls * nPayloads
    /\ \A u \in Units :
         (Running /\ unit[u].pc = "send") => (Len(results) < resultsCap /\ ~closed)

C14_Witness ==
    /\ mainPc = "go"
    /\ Len(results) = 2
    /\ \E u \in Units : unit[u].pc = "send"

\* ------------------------------------------------------------------ C15
\* C15: every result on the stream carries the baseline measured for its own
\* url and its classification is the one analyzeSQLi gives against it.
C15_OwnBaseline ==
    \A r \in OnStream :
        LET b == baselines[r.URL[1]] IN
        /\ b.err = "nil"
        /\ r.BaselineTime = b.time
        /\ r.BaselineSize = b.size
        /\ r.SQLiType = analyzeSQLi(r, b.time, b.size).SQLiType

C15_Witness ==
    \E r1, r2 \in OnStream :
        /\ r1.URL[1] # r2.URL[1]
        /\ r1.BaselineTime # r2.BaselineTime
        /\ r1.BaselineTime = baselines[r1.URL[1]].time

\* ------------------------------------------------------------------ C16
\* C16: the semaphore holds one element per unit between acquire and release,
\* whatever the request returned, and none once all scheduled units are over.
C16_SlotReleased ==
    /\ semaphore = Cardinality(Holders)
    /\ AllUnitsOver => semaphore = 0
    /\ \A u \in Units : unit[u].pc = "release" => semaphore > 0

C16_Witness ==
    /\ AllUnitsOver
    /\ semaphore = 0
    /\ Cardinality({u \in Units : unit[u].pc = "done"}) = 3
    /\ \E u \in Units : ProbeFailed(u)
    /\ \E u \in Units : unit[u].pc = "done" /\ ~ProbeFailed(u)

\* ------------------------------------------------------------------ C17
\* C17: at most one request per url (baseline) and per (url, payload), none for
\* a url without a successful baseline; when main leaves the range loop the
\* requests number len(urls) + |ok urls| * len(payloads).
C17_NoRetry ==
    /\ \A t \in Urls : Requests(<<t, 0>>) <= 1
    /\ \A u \in Units : Requests(u) <= (IF BaselineOk(u[1]) THEN 1 ELSE 0)
    /\ mainPc = "exit" =>
         /\ \A t \in 1..nUrls : Requests(<<t, 0>>) = 1
         /\ \A u \in Pairs : u[1] \in OkTargets => Requests(u) = 1
         /\ BagCardinality(netlog) = nUrls + Cardinality(OkTargets) * nPayloads

C17_Witness ==
    /\ mainPc = "exit"
    /\ nUrls = 3
    /\ Cardinality(OkTargets) = 2
    /\ BagCardinality(netlog) = 5
    /\ \E u \in Units : ProbeFailed(u)

\* ------------------------------------------------------------------ C18
\* C18: every result a unit sends or the stream holds, and every result a
\* direct call returns, has one of the four classifications, and IsSQLi is true
\* exactly when it is not "none".
Classified(r) ==
    /\ r.SQLiType \in SQLiTypes
    /\ r.IsSQLi <=> r.SQLiType \in {"time-based", "error-based", "anomaly-based"}

C18_FlagMatchesType ==
    /\ \A r \in OnStream : Classified(r)
    /\ \A u \in Units : unit[u].pc = "send" => Classified(unit[u].result)
    /\ Called => Classified(ret)

C18_Witness ==
    /\ \E r \in OnStream : r.SQLiType = "time-based" /\ r.IsSQLi
    /\ \E r \in OnStream : r.SQLiType = "error-based" /\ r.IsSQLi
    /\ \E r \in OnStream : r.SQLiType = "none" /\ ~r.IsSQLi

\* ------------------------------------------------------------------ C19
\* C19: a result is received only when main has asked the baseline of every url
\* and scheduled every unit; until then results are only buffered.
C19_ConsumeAfterLoop ==
    (reported # EmptyBag \/ errlog # EmptyBag) =>
        /\ mainPc \in {"range", "exit"}
        /\ \A t \in 1..nUrls : Requests(<<t, 0>>) = 1
        /\ \A u \in Pairs : u[1] \in OkTargets => unit[u].pc # "unborn"

C19_Witness ==
    /\ BagCardinality(reported) = 1
    /\ nUrls = 3
    /\ \E u \in Units : unit[u].pc = "acquire"

\* Results of the first urls are buffered while a later baseline is still to come.
C19_BufferedDuringLoop ==
    /\ mainPc = "loop"
    /\ Len(results) = 2
    /\ reported = EmptyBag

\* ------------------------------------------------------------------ C13
\* The Go scheduler keeps running some goroutine that can take a step, and every
\* request returns (performRequest has a timeout): weak fairness of Next.
FairSpec == Init /\ [][Next]_vars /\ WF_vars(Next)

ScanOver ==
    /\ mainPc = "exit"
    /\ closed
    /\ results = <<>>
    /\ AllUnitsOver
    /\ \A t \in 1..nUrls : Requests(<<t, 0>>) = 1
    /\ \A u \in Pairs : u[1] \in OkTargets => (unit[u].pc = "done" /\ Consumed(u) = 1)

\* C13: with a limit in 1..20 the scan terminates: every scheduled unit gets a
\* slot and finishes, the stream is closed, and main leaves the range loop
\* after receiving every result.
C13_Terminates == InRange => <>ScanOver

C13_Witness ==
    /\ InRange
    /\ flagT = 1
    /\ ScanOver
    /\ BagCardinality(reported) = 3

====
